---- MODULE Spec2Model ----
(***************************************************************************)
(* Model of app/main.py: the path normalization middleware, the startup    *)
(* hook, the memoized OpenAPI schema builder and the health endpoint.      *)
(*                                                                         *)
(* Strings the code inspects character by character (request paths, the    *)
(* PUBLIC_BASE_URL value) are sequences of one-character strings.  Python  *)
(* dicts are functions whose domain is the set of keys.                    *)
(***************************************************************************)
EXTENDS Integers, Sequences, FiniteSets, TLC

VARIABLES
    phase,          \* "created" | "init_db" | "serving" | "aborted"
    initCalls,      \* number of calls of init_db made by startup()
    initOutcome,    \* "none" | "returned" | "raised"
    callNextScope,  \* which scope BaseHTTPMiddleware.call_next hands downstream
    env,            \* os.environ entry PUBLIC_BASE_URL: [present, value]
    routes,         \* routers attached to app.routes
    openapi_schema, \* app.openapi_schema: <<>> is None, <<obj>> a cached object
    schemaWrites,   \* number of assignments to app.openapi_schema
    pc,             \* per request slot: position of the request in the chain
    scopePath,      \* per request slot: scope["path"] as received
    normalized,     \* per request slot: dispatch's normalized_path
    fwdPath,        \* per request slot: path of the request given to call_next
    routedPath,     \* per request slot: path the router matched on
    resp            \* per request slot: the response

vars == <<phase, initCalls, initOutcome, callNextScope, env, routes,
          openapi_schema, schemaWrites, pc, scopePath, normalized, fwdPath,
          routedPath, resp>>

---------------------------------------------------------------------------
(* Bounds of the model *)

NumClients == 2
MaxPathLen == 4
MaxPad == 1
MaxSlashes == 2

Clients == 1..NumClients

---------------------------------------------------------------------------
(* Character-sequence helpers (Python str semantics) *)

Whitespace == {" ", "\t", "\n"}

RECURSIVE Repeat(_, _)
Repeat(ch, n) == IF n = 0 THEN <<>> ELSE <<ch>> \o Repeat(ch, n - 1)

StartsWith(s, prefix) ==
    /\ Len(prefix) <= Len(s)
    /\ SubSeq(s, 1, Len(prefix)) = prefix

RECURSIVE LStripSet(_, _)
LStripSet(s, chars) ==
    IF s # <<>> /\ Head(s) \in chars THEN LStripSet(Tail(s), chars) ELSE s

RECURSIVE RStripSet(_, _)
RStripSet(s, chars) ==
    IF s # <<>> /\ s[Len(s)] \in chars
    THEN RStripSet(SubSeq(s, 1, Len(s) - 1), chars)
    ELSE s

\* str.strip(): leading and trailing whitespace removed
Strip(s) == RStripSet(LStripSet(s, Whitespace), Whitespace)

\* a plausible slip: only one trailing "/" removed (s[:-1] if s.endswith("/"))
RStripOneSlash(s) ==
    IF s # <<>> /\ s[Len(s)] = "/" THEN SubSeq(s, 1, Len(s) - 1) ELSE s

\* str.rstrip('/'): every trailing "/" removed
RStripSlash(s) == RStripSet(s, {"/"})

---------------------------------------------------------------------------
(* Path normalization: re.sub(r'/+', '/', path) *)

\* a plausible slip: path.replace("//", "/"), one non-overlapping pass
RECURSIVE ReplaceDoubleSlash(_)
ReplaceDoubleSlash(path) ==
    IF Len(path) < 2 THEN path
    ELSE IF path[1] = "/" /\ path[2] = "/"
         THEN <<"/">> \o ReplaceDoubleSlash(SubSeq(path, 3, Len(path)))
         ELSE <<path[1]>> \o ReplaceDoubleSlash(Tail(path))

\* the scan of re.sub: at each position the leftmost match of /+ is taken
\* greedily (the whole run of slashes) and replaced by a single "/"
RECURSIVE ReSubSlashes(_)
ReSubSlashes(path) ==
    IF path = <<>> THEN <<>>
    ELSE IF Head(path) = "/"
         THEN <<"/">> \o ReSubSlashes(LStripSet(path, {"/"}))
         ELSE <<Head(path)>> \o ReSubSlashes(Tail(path))

Normalize(path) == ReSubSlashes(path)

---------------------------------------------------------------------------
(* String literals of the program *)

Https == <<"h", "t", "t", "p", "s", ":", "/", "/">>
Placeholder ==
    <<"h", "t", "t", "p", "s", ":", "/", "/", "r", "e", "p", "l", "a", "c", "e", "-", "m", "e", ".", "e", "x", "a", "m", "p", "l", "e", ".", "c", "o", "m">>
HealthzPath == <<"/", "h", "e", "a", "l", "t", "h", "z">>
OpenapiPath == <<"/", "o", "p", "e", "n", "a", "p", "i", ".", "j", "s", "o", "n">>
ProductPath == <<"/", "p", "r", "o", "d", "u", "c", "t", "s", "/", "1", "2", "3">>

---------------------------------------------------------------------------
(* Python dict operations *)

EmptyDict == [k \in {} |-> k]

\* d[k] = v
DictSet(d, k, v) == [x \in (DOMAIN d) \cup {k} |-> IF x = k THEN v ELSE d[x]]

\* d.setdefault(k, v): the dict after the call
SetDefault(d, k, v) == IF k \in DOMAIN d THEN d ELSE DictSet(d, k, v)

\* os.getenv(name, default)
Getenv(e, default) == IF e.present THEN e.value ELSE default

---------------------------------------------------------------------------
(* The route table and the base schema get_openapi derives from it *)

Routers == {"products", "checkout", "webhooks"}
ExtraRouters == {"extra"}

\* What a router's routes declare to the schema generator.  The routers are
\* external; the table covers a route group with a response model, one with
\* another security scheme, and one whose scheme is also named ApiKeyAuth.
DeclaredSchemas(r) ==
    CASE r = "products" -> {"Product"}
      [] r = "extra" -> {"Extra"}
      [] OTHER -> {}

DeclaredSchemes(r) ==
    CASE r = "checkout" -> {"BearerAuth"}
      [] r = "webhooks" -> {"ApiKeyAuth"}
      [] OTHER -> {}

SchemeDefinition(name) ==
    IF name = "BearerAuth"
    THEN [type |-> "http", scheme |-> "bearer"]
    ELSE [type |-> "apiKey", in |-> "header", name |-> "X-Webhook-Key"]

AppInfo ==
    [title |-> "ACP-style Merchant API", version |-> "0.3.0",
     description |-> "ACP-like checkout API for GPT Actions demos. Public OpenAPI at /openapi.json"]

\* get_openapi(title, version, description, routes): "components" is present
\* only when some route declares a model or a security scheme
GetOpenapi(rts) ==
    LET models == UNION {DeclaredSchemas(r) : r \in rts}
        schemes == UNION {DeclaredSchemes(r) : r \in rts}
        withSchemas ==
            IF models = {} THEN EmptyDict
            ELSE DictSet(EmptyDict, "schemas", [m \in models |-> [type |-> "object"]])
        components ==
            IF schemes = {} THEN withSchemas
            ELSE DictSet(withSchemas, "securitySchemes",
                         [n \in schemes |-> SchemeDefinition(n)])
        base == [openapi |-> "3.1.0", info |-> AppInfo,
                 paths |-> {"/healthz"} \cup rts]
    IN  IF DOMAIN components = {} THEN base
        ELSE DictSet(base, "components", components)

---------------------------------------------------------------------------
(* custom_openapi *)

ApiKeyAuth ==
    [type |-> "apiKey", in |-> "header", name |-> "X-API-Key",
     description |-> "Provide your API key in the X-API-Key header."]

\* lines 70-77: the url of the single declared server
ServerUrl(e) ==
    LET base == Strip(Getenv(e, <<>>))
    IN  IF base # <<>> /\ StartsWith(base, Https)
        THEN RStripSlash(base)
        ELSE Placeholder

SetServers(schema, e) == DictSet(schema, "servers", <<[url |-> ServerUrl(e)]>>)

\* a plausible slip: the components block is assigned, not merged
AddSecurityOverwrite(schema) ==
    LET components == DictSet(EmptyDict, "securitySchemes",
                              DictSet(EmptyDict, "ApiKeyAuth", ApiKeyAuth))
    IN  DictSet(DictSet(schema, "components", components),
                "security", <<[ApiKeyAuth |-> <<>>]>>)

\* lines 80-89: setdefault keeps what the base schema holds
AddSecurity(schema) ==
    LET withComponents == SetDefault(schema, "components", EmptyDict)
        components == withComponents["components"]
        withSchemes == SetDefault(components, "securitySchemes", EmptyDict)
        security_schemes ==
            DictSet(withSchemes["securitySchemes"], "ApiKeyAuth", ApiKeyAuth)
        components2 == DictSet(withSchemes, "securitySchemes", security_schemes)
    IN  DictSet(DictSet(withComponents, "components", components2),
                "security", <<[ApiKeyAuth |-> <<>>]>>)

None == <<>>

\* truthiness of app.openapi_schema: not None and not an empty dict
Truthy(cache) == cache # None /\ DOMAIN cache[1].doc # {}

\* a plausible slip: the cache test never succeeds
CacheHitNever(cache) == FALSE

\* line 59: if app.openapi_schema
CacheHit(cache) == Truthy(cache)

\* The whole call: the returned object, the cache and the write count after
\* it.  An object's id stands for its identity: one per construction.
CustomOpenapi(cache, writes, rts, e) ==
    IF CacheHit(cache)
    THEN [ret |-> cache[1], cache |-> cache, writes |-> writes]
    ELSE LET schema == AddSecurity(SetServers(GetOpenapi(rts), e))
             obj == [id |-> writes + 1, doc |-> schema]
         IN  [ret |-> obj, cache |-> <<obj>>, writes |-> writes + 1]

---------------------------------------------------------------------------
(* Routing and the handlers *)

NotFound == [status |-> 404, handler |-> "not_found", body |-> [detail |-> "Not Found"]]
NoResponse == [status |-> 0, handler |-> "none", body |-> EmptyDict]

\* a plausible slip: the liveness route registered under another path
RouteWithoutHealthz(path, rts) ==
    IF path = OpenapiPath THEN "openapi"
    ELSE IF path = ProductPath /\ "products" \in rts THEN "products"
    ELSE "not_found"

\* The router matches the path it is given against the route table: the
\* schema route (set up by FastAPI()), /healthz, then the included routers.
Route(path, rts) ==
    IF path = OpenapiPath THEN "openapi"
    ELSE IF path = HealthzPath THEN "healthz"
    ELSE IF path = ProductPath /\ "products" \in rts THEN "products"
    ELSE "not_found"

\* lines 97-99
healthz == [status |-> "ok"]

\* BaseHTTPMiddleware.call_next(request): the path of the scope the downstream
\* application is run with.  Starlette releases differ: the older ones run it
\* with request.scope, the later ones with the scope the middleware itself was
\* called with, whatever request is passed.
CallNext(requestPath, connectionPath) ==
    IF callNextScope = "request" THEN requestPath ELSE connectionPath

---------------------------------------------------------------------------
(* Startup *)

\* the server runs the startup handlers before it accepts a connection
StartupCall ==
    /\ phase = "created"
    /\ phase' = "init_db"
    /\ initCalls' = initCalls + 1
    /\ UNCHANGED <<initOutcome, callNextScope, env, routes, openapi_schema,
                   schemaWrites, pc, scopePath, normalized, fwdPath,
                   routedPath, resp>>

InitDbReturns ==
    /\ phase = "init_db"
    /\ phase' = "serving"
    /\ initOutcome' = "returned"
    /\ UNCHANGED <<initCalls, callNextScope, env, routes, openapi_schema,
                   schemaWrites, pc, scopePath, normalized, fwdPath,
                   routedPath, resp>>

\* a plausible slip: the failure caught and logged, startup carries on
InitDbRaisesSwallowed ==
    /\ phase = "init_db"
    /\ phase' = "serving"
    /\ initOutcome' = "raised"
    /\ UNCHANGED <<initCalls, callNextScope, env, routes, openapi_schema,
                   schemaWrites, pc, scopePath, normalized, fwdPath,
                   routedPath, resp>>

\* startup() has no handler around init_db(): the exception leaves it and
\* the server gives up starting
InitDbRaises ==
    /\ phase = "init_db"
    /\ phase' = "aborted"
    /\ initOutcome' = "raised"
    /\ UNCHANGED <<initCalls, callNextScope, env, routes, openapi_schema,
                   schemaWrites, pc, scopePath, normalized, fwdPath,
                   routedPath, resp>>

---------------------------------------------------------------------------
(* A request through the middleware chain *)

Busy == {"received", "awaiting", "handled"}

\* the server hands a GET request for path p to the application
Receive(c, p) ==
    /\ phase = "serving"
    /\ pc[c] \notin Busy
    /\ pc' = [pc EXCEPT ![c] = "received"]
    /\ scopePath' = [scopePath EXCEPT ![c] = p]
    /\ normalized' = [normalized EXCEPT ![c] = <<>>]
    /\ fwdPath' = [fwdPath EXCEPT ![c] = <<>>]
    /\ routedPath' = [routedPath EXCEPT ![c] = <<>>]
    /\ resp' = [resp EXCEPT ![c] = NoResponse]
    /\ UNCHANGED <<phase, initCalls, initOutcome, callNextScope, env, routes,
                   openapi_schema, schemaWrites>>

\* NormalizePathMiddleware.dispatch up to its await: it suspends in call_next
Dispatch(c) ==
    /\ pc[c] = "received"
    /\ LET path == scopePath[c]
           normalized_path == Normalize(path)
           request == IF normalized_path # path THEN normalized_path ELSE path
       IN  /\ normalized' = [normalized EXCEPT ![c] = normalized_path]
           /\ fwdPath' = [fwdPath EXCEPT ![c] = request]
           /\ routedPath' = [routedPath EXCEPT ![c] = CallNext(request, path)]
    /\ pc' = [pc EXCEPT ![c] = "awaiting"]
    /\ UNCHANGED <<phase, initCalls, initOutcome, callNextScope, env, routes,
                   openapi_schema, schemaWrites, scopePath, resp>>

\* the route handler; none of them suspends, so each runs as one step
Handle(c) ==
    /\ pc[c] = "awaiting"
    /\ pc' = [pc EXCEPT ![c] = "handled"]
    /\ LET h == Route(routedPath[c], routes)
       IN  IF h = "openapi"
           THEN LET r == CustomOpenapi(openapi_schema, schemaWrites, routes, env)
                IN  /\ openapi_schema' = r.cache
                    /\ schemaWrites' = r.writes
                    /\ resp' = [resp EXCEPT ![c] =
                                 [status |-> 200, handler |-> h, body |-> r.ret]]
           ELSE /\ UNCHANGED <<openapi_schema, schemaWrites>>
                /\ resp' = [resp EXCEPT ![c] =
                             CASE h = "healthz" ->
                                    [status |-> 200, handler |-> h, body |-> healthz]
                               [] h = "products" ->
                                    [status |-> 200, handler |-> h, body |-> [id |-> "123"]]
                               [] OTHER -> NotFound]
    /\ UNCHANGED <<phase, initCalls, initOutcome, callNextScope, env, routes,
                   scopePath, normalized, fwdPath, routedPath>>

\* dispatch resumes and returns the handler's response as it is
Respond(c) ==
    /\ pc[c] = "handled"
    /\ pc' = [pc EXCEPT ![c] = "done"]
    /\ UNCHANGED <<phase, initCalls, initOutcome, callNextScope, env, routes,
                   openapi_schema, schemaWrites, scopePath, normalized, fwdPath,
                   routedPath, resp>>

---------------------------------------------------------------------------
(* Changes around the application *)

SetEnv(v) ==
    /\ env # v
    /\ env' = v
    /\ UNCHANGED <<phase, initCalls, initOutcome, callNextScope, routes,
                   openapi_schema, schemaWrites, pc, scopePath, normalized,
                   fwdPath, routedPath, resp>>

IncludeRouter(r) ==
    /\ r \notin routes
    /\ routes' = routes \cup {r}
    /\ UNCHANGED <<phase, initCalls, initOutcome, callNextScope, env,
                   openapi_schema, schemaWrites, pc, scopePath, normalized,
                   fwdPath, routedPath, resp>>

---------------------------------------------------------------------------
(* Inputs *)

Unset == [present |-> FALSE, value |-> <<>>]
EnvOf(v) == [present |-> TRUE, value |-> v]

EnvSamples == {Unset, EnvOf(Https \o <<"a", "/">>)}

RequestPaths ==
    {HealthzPath, <<"/">> \o HealthzPath, OpenapiPath, ProductPath,
     <<"/", "/", "p", "r", "o", "d", "u", "c", "t", "s", "/", "/", "/", "1", "2", "3">>}

PathAlphabet == {"/", "a", "b"}

\* every path "/" followed by at most MaxPathLen characters
AllPaths ==
    {<<"/">> \o s : s \in UNION {[1..n -> PathAlphabet] : n \in 0..MaxPathLen}}

Schemes == {<<>>, Https, <<"h", "t", "t", "p", ":", "/", "/">>}
Hosts == {<<>>, <<"a">>, <<"a", "/", "b">>}

\* PUBLIC_BASE_URL unset, or padding, scheme, host, trailing slashes, padding
EnvValues ==
    {Unset} \cup
    {EnvOf(Repeat(" ", l) \o sch \o h \o Repeat("/", k) \o Repeat(" ", r)) :
        l \in 0..MaxPad, sch \in Schemes, h \in Hosts, k \in 0..MaxSlashes,
        r \in 0..MaxPad}

---------------------------------------------------------------------------
(* Specifications *)

Idle ==
    /\ pc = [c \in Clients |-> "idle"]
    /\ scopePath = [c \in Clients |-> <<>>]
    /\ normalized = [c \in Clients |-> <<>>]
    /\ fwdPath = [c \in Clients |-> <<>>]
    /\ routedPath = [c \in Clients |-> <<>>]
    /\ resp = [c \in Clients |-> NoResponse]

\* the state after the module is imported
Init ==
    /\ phase = "created"
    /\ initCalls = 0
    /\ initOutcome = "none"
    /\ callNextScope \in {"request", "connection"}
    /\ env \in EnvSamples
    /\ routes = Routers
    /\ openapi_schema = None
    /\ schemaWrites = 0
    /\ Idle

Next ==
    \/ StartupCall
    \/ InitDbReturns
    \/ InitDbRaises
    \/ \E c \in Clients, p \in RequestPaths : Receive(c, p)
    \/ \E c \in Clients : Dispatch(c)
    \/ \E c \in Clients : Handle(c)
    \/ \E c \in Clients : Respond(c)
    \/ \E v \in EnvSamples : SetEnv(v)
    \/ \E r \in ExtraRouters : IncludeRouter(r)

Spec == Init /\ [][Next]_vars

\* a started application with nothing cached yet
Serving ==
    /\ phase = "serving"
    /\ initCalls = 1
    /\ initOutcome = "returned"
    /\ callNextScope \in {"request", "connection"}
    /\ openapi_schema = None
    /\ schemaWrites = 0
    /\ Idle

\* normalization over every path of the bounded alphabet
InitPath ==
    /\ Serving
    /\ env = Unset
    /\ routes = Routers

NextPath ==
    \/ \E p \in AllPaths : Receive(1, p)
    \/ Dispatch(1)
    \/ Handle(1)
    \/ Respond(1)

SpecPath == InitPath /\ [][NextPath]_vars

\* the schema builder over every environment value and route table
InitEnv ==
    /\ Serving
    /\ env \in EnvValues
    /\ routes \in SUBSET (Routers \cup ExtraRouters)

NextEnv ==
    \/ Receive(1, OpenapiPath)
    \/ Dispatch(1)
    \/ Handle(1)
    \/ Respond(1)

SpecEnv == InitEnv /\ [][NextEnv]_vars

---------------------------------------------------------------------------
(* Properties *)

\* the request slot has passed dispatch's call_next
Forwarded(c) == pc[c] \in {"awaiting", "handled", "done"}
\* the route handler of the slot's request has run
Handled(c) == pc[c] \in {"handled", "done"}

NoDoubleSlash(s) == \A i \in 1..(Len(s) - 1) : ~(s[i] = "/" /\ s[i + 1] = "/")

\* the url of the cached document's first server
CachedUrl == openapi_schema[1].doc["servers"][1].url

\* C1: the request dispatch forwards is routed by the normalized path, so
\* requests whose paths normalize to the same string reach the same handler.
C1_RoutedByNormalizedPath ==
    /\ \A c \in Clients :
          Forwarded(c) => routedPath[c] = Normalize(scopePath[c])
    /\ \A c, d \in Clients :
          (Forwarded(c) /\ Forwarded(d)
             /\ Normalize(scopePath[c]) = Normalize(scopePath[d]))
          => Route(routedPath[c], routes) = Route(routedPath[d], routes)

\* C2: the normalized path dispatch computes holds no two consecutive "/".
C2_NoConsecutiveSlashes ==
    \A c \in Clients : Forwarded(c) => NoDoubleSlash(normalized[c])

C2_Witness ==
    \E c \in Clients :
        /\ Forwarded(c)
        /\ scopePath[c] = <<"/", "/", "a", "/", "/">>
        /\ normalized[c] = <<"/", "a", "/">>

\* C3: normalizing the normalized path again changes nothing, and a request
\* whose path is already normalized is forwarded with that path.
C3_Idempotent ==
    \A c \in Clients :
        Forwarded(c) =>
            /\ Normalize(normalized[c]) = normalized[c]
            /\ (NoDoubleSlash(scopePath[c]) => fwdPath[c] = scopePath[c])

C3_Witness ==
    \E c \in Clients :
        /\ Forwarded(c)
        /\ scopePath[c] = <<"/", "/", "/", "/", "a">>
        /\ fwdPath[c] = <<"/", "a">>

\* v without its first i and last j characters is v without its leading and
\* trailing whitespace
IsStripCut(v, i, j) ==
    LET t == SubSeq(v, i + 1, Len(v) - j)
    IN  /\ i + j <= Len(v)
        /\ \A k \in 1..i : v[k] \in Whitespace
        /\ \A k \in (Len(v) - j + 1)..Len(v) : v[k] \in Whitespace
        /\ t # <<>> => (t[1] \notin Whitespace /\ t[Len(t)] \notin Whitespace)

\* u is t without its trailing slashes, all of them
IsWithoutTrailingSlashes(u, t) ==
    \E k \in 0..Len(t) :
        /\ u = SubSeq(t, 1, Len(t) - k)
        /\ \A m \in (Len(t) - k + 1)..Len(t) : t[m] = "/"
        /\ u # <<>> => u[Len(u)] # "/"

\* C4 as stated: servers[0].url is the value of PUBLIC_BASE_URL with its
\* trailing slash stripped if the value is non-empty and begins with
\* https://, and the placeholder otherwise.
C4_UrlFromRawValue ==
    Truthy(openapi_schema) =>
        CachedUrl =
            IF env.present /\ env.value # <<>> /\ StartsWith(env.value, Https)
            THEN IF env.value[Len(env.value)] = "/"
                 THEN SubSeq(env.value, 1, Len(env.value) - 1)
                 ELSE env.value
            ELSE Placeholder

\* C4 amended: servers[0].url is the value of PUBLIC_BASE_URL with its
\* surrounding whitespace and then all its trailing slashes stripped, if the
\* whitespace-stripped value is non-empty and begins with https://, and the
\* placeholder otherwise; every schema request is answered.
C4_UrlFromStrippedValue ==
    /\ Truthy(openapi_schema) =>
          LET v == IF env.present THEN env.value ELSE <<>>
          IN  \E i, j \in 0..Len(v) :
                /\ IsStripCut(v, i, j)
                /\ LET t == SubSeq(v, i + 1, Len(v) - j)
                   IN  IF t # <<>> /\ StartsWith(t, Https)
                       THEN IsWithoutTrailingSlashes(CachedUrl, t)
                       ELSE CachedUrl = Placeholder
    /\ \A c \in Clients :
          (Handled(c) /\ routedPath[c] = OpenapiPath) =>
              (resp[c].status = 200 /\ Truthy(openapi_schema))

C4_Witness ==
    /\ Truthy(openapi_schema)
    /\ env = EnvOf(<<" ">> \o Https \o <<"a", "/", "/", " ">>)
    /\ CachedUrl = Https \o <<"a">>

\* C5: once the cache is populated it never changes and is not built again,
\* whatever happens to the environment or the route table, and every schema
\* response carries the cached object itself.
C5_Memoized ==
    /\ [](\A c \in Clients :
            (Handled(c) /\ resp[c].handler = "openapi") =>
                (Truthy(openapi_schema) /\ resp[c].body = openapi_schema[1]))
    /\ [][Truthy(openapi_schema) =>
            (openapi_schema' = openapi_schema /\ schemaWrites' = schemaWrites)]_vars

C5_Witness ==
    /\ \A c \in Clients : pc[c] = "done" /\ resp[c].handler = "openapi"
    /\ env.present
    /\ CachedUrl = Placeholder
    /\ routes # Routers
    /\ "extra" \notin openapi_schema[1].doc["paths"]

\* C6: init_db is called once; no request enters the application unless that
\* call has returned; a raised exception aborts startup for good.
C6_StartupBeforeRequests ==
    /\ initCalls <= 1
    /\ phase \in {"serving", "aborted"} => initCalls = 1
    /\ \A c \in Clients :
          pc[c] # "idle" => (initCalls = 1 /\ initOutcome = "returned")
    /\ initOutcome = "raised" => phase = "aborted"
    /\ phase = "serving" => initOutcome = "returned"

C6_Witness ==
    /\ initCalls = 1
    /\ initOutcome = "returned"
    /\ \E c \in Clients : pc[c] = "done" /\ resp[c].status = 200

\* C7: the cached document declares ApiKeyAuth as the X-API-Key header scheme
\* and as the only global security requirement, and keeps every other
\* component and security scheme of the base schema.
C7_SecurityScheme ==
    Truthy(openapi_schema) =>
        LET doc == openapi_schema[1].doc
            base == GetOpenapi(routes)
            kept == IF "components" \in DOMAIN base
                    THEN base["components"] ELSE EmptyDict
            keptSchemes == IF "securitySchemes" \in DOMAIN kept
                           THEN kept["securitySchemes"] ELSE EmptyDict
        IN  /\ doc["components"]["securitySchemes"]["ApiKeyAuth"] =
                 [type |-> "apiKey", in |-> "header", name |-> "X-API-Key",
                  description |-> "Provide your API key in the X-API-Key header."]
            /\ doc["security"] = <<[ApiKeyAuth |-> <<>>]>>
            /\ \A k \in (DOMAIN kept) \ {"securitySchemes"} :
                  /\ k \in DOMAIN doc["components"]
                  /\ doc["components"][k] = kept[k]
            /\ \A n \in (DOMAIN keptSchemes) \ {"ApiKeyAuth"} :
                  /\ n \in DOMAIN doc["components"]["securitySchemes"]
                  /\ doc["components"]["securitySchemes"][n] = keptSchemes[n]

C7_Witness ==
    /\ Truthy(openapi_schema)
    /\ routes = Routers
    /\ DOMAIN openapi_schema[1].doc["components"] = {"schemas", "securitySchemes"}
    /\ DOMAIN openapi_schema[1].doc["components"]["securitySchemes"] =
          {"ApiKeyAuth", "BearerAuth"}

\* C8: a GET /healthz is answered 200 {"status": "ok"}, whatever was handled
\* before it.
C8_Healthz ==
    \A c \in Clients :
        (Handled(c) /\ scopePath[c] = HealthzPath) =>
            /\ resp[c].status = 200
            /\ resp[c].handler = "healthz"
            /\ resp[c].body = [status |-> "ok"]

C8_Witness ==
    \E c, d \in Clients :
        /\ c # d
        /\ pc[c] = "done" /\ scopePath[c] = HealthzPath /\ resp[c].status = 200
        /\ pc[d] = "done" /\ normalized[d] # scopePath[d]
        /\ Truthy(openapi_schema)

\* C9: app.openapi_schema is assigned at most once, and all schema responses
\* carry the same object, however the requests interleave.
C9_WrittenAtMostOnce ==
    /\ schemaWrites <= 1
    /\ \A c, d \in Clients :
          (Handled(c) /\ Handled(d) /\ resp[c].handler = "openapi"
             /\ resp[d].handler = "openapi")
          => resp[c].body = resp[d].body

C9_Witness ==
    /\ schemaWrites = 1
    /\ \A c \in Clients :
          pc[c] = "handled" /\ resp[c].handler = "openapi"

\* C10: the cached document declares exactly one server, whose url begins
\* with https:// and does not end with "/".
C10_WellFormedServer ==
    Truthy(openapi_schema) =>
        /\ Len(openapi_schema[1].doc["servers"]) = 1
        /\ StartsWith(CachedUrl, Https)
        /\ CachedUrl[Len(CachedUrl)] # "/"

====
